---------------------------- MODULE Spec2Model ----------------------------
(***************************************************************************)
(* Model of the cunumeric matrix task variants:                            *)
(*   trilu.cu        - trilu_kernel and its GPU launch (TriluImplBody)     *)
(*   syrk.cc         - CPU symmetric / Hermitian rank-k update             *)
(*   contract_omp.cc - OpenMP tensor contraction through tblis             *)
(*   syrk.cc, CUDA helper part - check_* error checks, reduce_bool,        *)
(*                     reduce_output, cache-qualified loads and stores     *)
(* Each part has its own variables and its own specification; a            *)
(* specification leaves the variables of the other parts at their idle     *)
(* values.                                                                 *)
(***************************************************************************)
EXTENDS Integers, Sequences, FiniteSets, TLC

VARIABLES
  \* ---- trilu.cu ----
  targs,      \* template parameters and kernel arguments of one trilu task
  in,         \* AccessorRO: point -> value
  out,        \* AccessorWO: point -> value, Undef until written
  hostpc,     \* position of TriluImplBody::operator(): "call" | "returned"
  launches,   \* kernel launches issued by the host, in order
  tpc,        \* per device thread <<blockIdx, threadIdx>>: "ready"|"loaded"|"done"
  tmp,        \* per device thread: the value loaded from in[p]
  reads,      \* memory reads performed:  {<<thread, array, point>>}
  writes,     \* memory writes performed: {<<thread, array, point>>}
  nwrites,    \* number of stores performed on each point of out
  \* ---- syrk.cc ----
  sargs,      \* one syrk task: element type code, m, n, lhs contents at the call
  syrk_lhs,   \* the lhs buffer: m*m elements, column-major
  syrk_rhs,   \* the rhs buffer: m*n elements, column-major
  spc,        \* position of SyrkImplBody::operator(): "call" | "returned"
  \* ---- contract_omp.cc ----
  cargs,      \* one contraction: element type code, ndims, memory at the call
  mem,        \* the buffers behind the fifteen arguments: name -> contents
  calls,      \* the tblis calls made by ContractImplBody, in order
  cpc,        \* position of ContractImplBody::operator(): "call" | "returned"
  \* ---- contract_omp.cc: ContractTask::omp_variant and the environment ----
  eargs,      \* the process: its libc's setenv, TBLIS_NUM_THREADS at start
  env,        \* value of TBLIS_NUM_THREADS: Unset or a string of characters
  envlog,     \* the writes of TBLIS_NUM_THREADS performed by setenv, in order
  opc,        \* per OpenMP processor: position in omp_variant
  ostr,       \* per OpenMP processor: the local std::string str
  ocalls,     \* per OpenMP processor: omp_variant calls completed
  \* ---- syrk.cc, CUDA helpers: CHECK_* / check_* ----
  chk,        \* one checked call: library, status returned, __FILE__, __LINE__
  chkpc,      \* position of the caller: "call" | "returned" | "exited"
  stderr,     \* the lines written to stderr, in order
  exitstatus, \* Undef while the process runs, then the status its parent sees
  \* ---- syrk.cc, CUDA helpers: reduce_bool / reduce_output ----
  rargs,      \* one block calling a reduction: function, REDUCTION, inputs
  values,     \* per thread of the block: its local variable value
  trampoline, \* the __shared__ array: warp -> <<value>>, <<>> until written
  wpc,        \* per warp: "reduce" | "sync" | "output" | "done"
  result,     \* the DeferredValue / DeferredReduction behind result
  rlog,       \* thread 0: its loads of trampoline and writes of result
  \* ---- syrk.cc, CUDA helpers: load_cached / load_l2 / load_streaming /
  \*      store_streaming ----
  pargs,      \* global memory before the first call
  gmem,       \* global memory: byte address -> byte
  plog        \* the calls made by the thread: arguments, return value, and
              \* global memory before and after

triluVars == <<targs, in, out, hostpc, launches, tpc, tmp, reads, writes, nwrites>>
syrkVars == <<sargs, syrk_lhs, syrk_rhs, spc>>
contractVars == <<cargs, mem, calls, cpc>>
envVars == <<eargs, env, envlog, opc, ostr, ocalls>>
helperVars ==
  <<chk, chkpc, stderr, exitstatus,
    rargs, values, trampoline, wpc, result, rlog, pargs, gmem, plog>>

vars == <<triluVars, syrkVars, contractVars, envVars, helperVars>>

-----------------------------------------------------------------------------
(* Bounds of the model *)

\* largest volume (number of points) of a rectangle whose threads are interleaved
MaxVolume == 3
\* threads per block when the threads of a launch are interleaved: the kernel
\* takes its block size from blockDim.x, and its interleavings are explored
\* with blocks of BlockDim threads; the host side (SpecLaunch) launches with
\* THREADS_PER_BLOCK
BlockDim == 2
\* the diagonal offset k ranges over -MaxK .. MaxK
MaxK == 1
\* largest volume handed to the host-side launch computation
MaxLaunchVolume == 300
\* lhs is m-by-m and rhs is m-by-n with m in 1..MaxM, n in 0..MaxN
MaxM == 2
MaxN == 2
\* every mode (label) of a contraction has an extent in 1..MaxExt
MaxExt == 2
\* OpenMP processors of the process that run contraction tasks
NumOmpProcs == 2
\* omp_variant calls run by each OpenMP processor
MaxCalls == 2
\* threads of a block, among the corners of its warps, whose input to a
\* reduction differs from the input of the other threads
MaxMarked == 2
\* bytes of global memory reachable through the pointers of the intrinsics
MemBytes == 8
\* calls of the load and store intrinsics made by the thread
MaxAccesses == 2

(* Program constants *)
THREADS_PER_BLOCK == 128
\* the lanes of a warp: the 32 of THREADS_PER_BLOCK / 32 and of the shuffles
WarpSize == 32

Undef == "undef"
Idle == "idle"

-----------------------------------------------------------------------------
(* trilu.cu *)

RECURSIVE Product(_)
Product(s) == IF s = <<>> THEN 1 ELSE Head(s) * Product(Tail(s))

\* Pitches<DIM-1>::flatten: pitches[d] is the volume of the dimensions after d
PitchesOf(shape) ==
  [d \in 1..(Len(shape) - 1) |-> Product(SubSeq(shape, d + 1, Len(shape)))]

RECURSIVE UnflattenFrom(_, _, _, _)
UnflattenFrom(d, index, lo, pitches) ==
  IF d > Len(pitches)
    THEN <<lo[d] + index>>
    ELSE <<lo[d] + (index \div pitches[d])>>
           \o UnflattenFrom(d + 1, index % pitches[d], lo, pitches)

\* Pitches<DIM-1>::unflatten(index, lo)
Unflatten(index, lo, pitches) == UnflattenFrom(1, index, lo, pitches)

\* the points of the rectangle [lo, lo + shape - 1]
RectPoints(lo, shape) ==
  { Unflatten(i, lo, PitchesOf(shape)) : i \in 0..(Product(shape) - 1) }

\* blockIdx.x * blockDim.x + threadIdx.x
GlobalIdxSum(blockIdx, blockDim, threadIdx) == blockIdx + threadIdx
GlobalIdx(blockIdx, blockDim, threadIdx) == blockIdx * blockDim + threadIdx

\* if (idx >= volume) return;
OutOfRange(idx, volume) == idx >= volume

\* LOWER branch: p[DIM - 2] + k >= p[DIM - 1]
LowerKeepStrict(p, k) == p[Len(p) - 1] + k > p[Len(p)]
LowerKeep(p, k) == p[Len(p) - 1] + k >= p[Len(p)]

\* !LOWER branch: p[DIM - 2] + k <= p[DIM - 1]
UpperKeepStrict(p, k) == p[Len(p) - 1] + k < p[Len(p)]
UpperKeep(p, k) == p[Len(p) - 1] + k <= p[Len(p)]

\* the template branch if (LOWER) ... else ...
Keep(LOWER, p, k) == IF LOWER THEN LowerKeep(p, k) ELSE UpperKeep(p, k)

\* (volume + THREADS_PER_BLOCK - 1) / THREADS_PER_BLOCK
BlocksFloor(volume, threadsPerBlock) == volume \div threadsPerBlock
Blocks(volume, threadsPerBlock) ==
  (volume + threadsPerBlock - 1) \div threadsPerBlock

\* device threads of a launch <<<blocks, threadsPerBlock>>>
ThreadsOf(blocks, threadsPerBlock) ==
  (0..(blocks - 1)) \X (0..(threadsPerBlock - 1))

\* idx and p of a device thread, as the kernel computes them
IdxOf(t) == GlobalIdx(t[1], launches[1].threads, t[2])
PointOf(t) == Unflatten(IdxOf(t), targs.lo, targs.pitches)

\* rectangles handed to a trilu task: DIM in {2, 3}
Shapes(maxVolume) ==
  { s \in UNION { [1..dim -> 0..maxVolume] : dim \in {2, 3} } :
      Product(s) <= maxVolume }

\* lower corners of the rectangle
Los(dim) == { [d \in 1..dim |-> 0], [d \in 1..dim |-> d] }

\* element values of the input array
Vals == {0, 1}

otherThanTrilu == <<syrkVars, contractVars, envVars, helperVars>>

TriluIdle ==
  /\ targs = Idle /\ in = Idle /\ out = Idle /\ hostpc = Idle
  /\ launches = <<>> /\ tpc = <<>> /\ tmp = <<>>
  /\ reads = {} /\ writes = {} /\ nwrites = <<>>

TriluInit(shapes, vals) ==
  /\ \E LOWER \in BOOLEAN, k \in (-MaxK)..MaxK, shape \in shapes :
       \E lo \in Los(Len(shape)) :
         /\ targs = [LOWER |-> LOWER, DIM |-> Len(shape), k |-> k, lo |-> lo,
                     shape |-> shape, pitches |-> PitchesOf(shape),
                     volume |-> Product(shape)]
         /\ in \in [RectPoints(lo, shape) -> vals]
         /\ out = [p \in RectPoints(lo, shape) |-> Undef]
         /\ nwrites = [p \in RectPoints(lo, shape) |-> 0]
  /\ hostpc = "call"
  /\ launches = <<>>
  /\ tpc = <<>>
  /\ tmp = <<>>
  /\ reads = {}
  /\ writes = {}

\* TriluImplBody<VariantKind::GPU, CODE, DIM, LOWER>::operator()
TriluImplBody(threadsPerBlock) ==
  /\ hostpc = "call"
  /\ LET blocks == Blocks(targs.volume, threadsPerBlock)
     IN /\ launches' = Append(launches, [kernel |-> "trilu_kernel",
                                         blocks |-> blocks,
                                         threads |-> threadsPerBlock])
        /\ tpc' = [t \in ThreadsOf(blocks, threadsPerBlock) |-> "ready"]
        /\ tmp' = [t \in ThreadsOf(blocks, threadsPerBlock) |-> Undef]
  /\ hostpc' = "returned"
  /\ UNCHANGED <<targs, in, out, reads, writes, nwrites>>
  /\ UNCHANGED otherThanTrilu

\* trilu_kernel, a thread with idx >= volume: return
KernelReturn(t) ==
  /\ tpc[t] = "ready"
  /\ OutOfRange(IdxOf(t), targs.volume)
  /\ tpc' = [tpc EXCEPT ![t] = "done"]
  /\ UNCHANGED <<targs, in, out, hostpc, launches, tmp, reads, writes, nwrites>>
  /\ UNCHANGED otherThanTrilu

\* trilu_kernel, the read of in[p] in  out[p] = in[p]
KernelLoad(t) ==
  /\ tpc[t] = "ready"
  /\ ~OutOfRange(IdxOf(t), targs.volume)
  /\ Keep(targs.LOWER, PointOf(t), targs.k)
  /\ tmp' = [tmp EXCEPT ![t] = in[PointOf(t)]]
  /\ reads' = reads \cup {<<t, "in", PointOf(t)>>}
  /\ tpc' = [tpc EXCEPT ![t] = "loaded"]
  /\ UNCHANGED <<targs, in, out, hostpc, launches, writes, nwrites>>
  /\ UNCHANGED otherThanTrilu

\* trilu_kernel, the write of out[p] in  out[p] = in[p]
KernelStore(t) ==
  /\ tpc[t] = "loaded"
  /\ out' = [out EXCEPT ![PointOf(t)] = tmp[t]]
  /\ writes' = writes \cup {<<t, "out", PointOf(t)>>}
  /\ nwrites' = [nwrites EXCEPT ![PointOf(t)] = @ + 1]
  /\ tpc' = [tpc EXCEPT ![t] = "done"]
  /\ UNCHANGED <<targs, in, hostpc, launches, tmp, reads>>
  /\ UNCHANGED otherThanTrilu

\* trilu_kernel, out[p] = 0
KernelZero(t) ==
  /\ tpc[t] = "ready"
  /\ ~OutOfRange(IdxOf(t), targs.volume)
  /\ ~Keep(targs.LOWER, PointOf(t), targs.k)
  /\ out' = [out EXCEPT ![PointOf(t)] = 0]
  /\ writes' = writes \cup {<<t, "out", PointOf(t)>>}
  /\ nwrites' = [nwrites EXCEPT ![PointOf(t)] = @ + 1]
  /\ tpc' = [tpc EXCEPT ![t] = "done"]
  /\ UNCHANGED <<targs, in, hostpc, launches, tmp, reads>>
  /\ UNCHANGED otherThanTrilu

KernelDone == hostpc = "returned" /\ \A t \in DOMAIN tpc : tpc[t] = "done"



-----------------------------------------------------------------------------
(* syrk.cc *)

\* Elements are pairs <<re, im>> of integers; an element of a real type
\* (float, double) has im = 0.  Rounding to the element precision is not
\* modelled.
CAdd(x, y) == <<x[1] + y[1], x[2] + y[2]>>
CSub(x, y) == <<x[1] - y[1], x[2] - y[2]>>
CMul(x, y) == <<x[1] * y[1] - x[2] * y[2], x[1] * y[2] + x[2] * y[1]>>
Conj(x) == <<x[1], -x[2]>>
CScale(a, x) == <<a * x[1], a * x[2]>>

RECURSIVE CSum(_)
CSum(s) == IF s = <<>> THEN <<0, 0>> ELSE CAdd(Head(s), CSum(Tail(s)))

\* offset of element (i, j) of a matrix with leading dimension ld
MatOffset(Order, i, j, ld) ==
  IF Order = "CblasColMajor" THEN i + j * ld ELSE i * ld + j

\* element (i, l) of op(A), op(A) being N-by-K
OpA(Order, Trans, A, lda, i, l) ==
  IF Trans = "CblasNoTrans"
    THEN A[MatOffset(Order, i, l, lda) + 1]
    ELSE A[MatOffset(Order, l, i, lda) + 1]

InTriangle(Uplo, i, j) == IF Uplo = "CblasLower" THEN i >= j ELSE i <= j

\* cblas_ssyrk, cblas_dsyrk (cblas_csyrk, cblas_zsyrk):
\*   C := alpha * op(A) * op(A)^T + beta * C  on the Uplo triangle of C
CblasSyrk(Order, Uplo, Trans, N, K, alpha, A, lda, beta, C, ldc) ==
  [o \in 1..Len(C) |->
     IF \E i, j \in 0..(N - 1) :
          InTriangle(Uplo, i, j) /\ MatOffset(Order, i, j, ldc) + 1 = o
       THEN LET i == CHOOSE i \in 0..(N - 1) : \E j \in 0..(N - 1) :
                       InTriangle(Uplo, i, j) /\ MatOffset(Order, i, j, ldc) + 1 = o
                j == CHOOSE j \in 0..(N - 1) :
                       InTriangle(Uplo, i, j) /\ MatOffset(Order, i, j, ldc) + 1 = o
                prod == CSum([l \in 1..K |->
                          CMul(OpA(Order, Trans, A, lda, i, l - 1),
                               OpA(Order, Trans, A, lda, j, l - 1))])
            IN  CAdd(CScale(alpha, prod), CScale(beta, C[o]))
       ELSE C[o]]

\* cblas_cherk, cblas_zherk:
\*   C := alpha * op(A) * op(A)^H + beta * C  on the Uplo triangle of C, the
\*   diagonal of C kept real; nothing is done when N = 0, or when beta = 1 and
\*   (alpha = 0 or K = 0)
CblasHerk(Order, Uplo, Trans, N, K, alpha, A, lda, beta, C, ldc) ==
  IF N = 0 \/ ((alpha = 0 \/ K = 0) /\ beta = 1)
    THEN C
    ELSE
  [o \in 1..Len(C) |->
     IF \E i, j \in 0..(N - 1) :
          InTriangle(Uplo, i, j) /\ MatOffset(Order, i, j, ldc) + 1 = o
       THEN LET i == CHOOSE i \in 0..(N - 1) : \E j \in 0..(N - 1) :
                       InTriangle(Uplo, i, j) /\ MatOffset(Order, i, j, ldc) + 1 = o
                j == CHOOSE j \in 0..(N - 1) :
                       InTriangle(Uplo, i, j) /\ MatOffset(Order, i, j, ldc) + 1 = o
                prod == CSum([l \in 1..K |->
                          IF Trans = "CblasNoTrans"
                            THEN CMul(OpA(Order, Trans, A, lda, i, l - 1),
                                      Conj(OpA(Order, Trans, A, lda, j, l - 1)))
                            ELSE CMul(Conj(OpA(Order, Trans, A, lda, i, l - 1)),
                                      OpA(Order, Trans, A, lda, j, l - 1))])
                new == CAdd(CScale(alpha, prod), CScale(beta, C[o]))
            IN  IF i = j THEN <<new[1], 0>> ELSE new
       ELSE C[o]]

\* the routine a SyrkImplBody hands to its template
CblasCall(syrk, Order, Uplo, Trans, N, K, alpha, A, lda, beta, C, ldc) ==
  IF syrk \in {"cblas_cherk", "cblas_zherk"}
    THEN CblasHerk(Order, Uplo, Trans, N, K, alpha, A, lda, beta, C, ldc)
    ELSE CblasSyrk(Order, Uplo, Trans, N, K, alpha, A, lda, beta, C, ldc)

\* syrk_template(syrk, lhs, rhs, m, n): the new contents of lhs
syrk_template_upper(syrk, lhs, rhs, m, n) ==
  CblasCall(syrk, "CblasColMajor", "CblasUpper", "CblasNoTrans",
            m, n, -1, rhs, m, 1, lhs, m)
syrk_template(syrk, lhs, rhs, m, n) ==
  CblasCall(syrk, "CblasColMajor", "CblasLower", "CblasNoTrans",
            m, n, -1, rhs, m, 1, lhs, m)

\* complex_syrk_template(syrk, lhs, rhs, m, n): the new contents of lhs
complex_syrk_template(syrk, lhs, rhs, m, n) ==
  CblasCall(syrk, "CblasColMajor", "CblasLower", "CblasNoTrans",
            m, n, -1, rhs, m, 1, lhs, m)

\* SyrkImplBody<VariantKind::CPU, ...>::operator(): the new contents of lhs
SyrkImplBody_FLOAT(lhs, rhs, m, n) == syrk_template("cblas_ssyrk", lhs, rhs, m, n)

SyrkImplBody_DOUBLE(lhs, rhs, m, n) == syrk_template("cblas_dsyrk", lhs, rhs, m, n)

SyrkImplBody_COMPLEX64_csyrk(lhs, rhs, m, n) ==
  complex_syrk_template("cblas_csyrk", lhs, rhs, m, n)
SyrkImplBody_COMPLEX64(lhs, rhs, m, n) ==
  complex_syrk_template("cblas_cherk", lhs, rhs, m, n)

SyrkImplBody_COMPLEX128(lhs, rhs, m, n) ==
  complex_syrk_template("cblas_zherk", lhs, rhs, m, n)

RealCodes == {"FLOAT_LT", "DOUBLE_LT"}
ComplexCodes == {"COMPLEX64_LT", "COMPLEX128_LT"}
Codes == RealCodes \cup ComplexCodes

\* element values of rhs, per element type
RhsVals(code) ==
  IF code \in RealCodes THEN {<<-1, 0>>, <<2, 0>>}
                        ELSE {<<0, 1>>, <<1, -1>>}

\* contents of lhs at the call, per element type
LhsInits(code, m) ==
  { [o \in 1..(m * m) |-> <<base + o, im>>] :
      base \in {0, 10}, im \in (IF code \in RealCodes THEN {0} ELSE {0, 1}) }

otherThanSyrk == <<triluVars, contractVars, envVars, helperVars>>

SyrkIdle ==
  sargs = Idle /\ syrk_lhs = Idle /\ syrk_rhs = Idle /\ spc = Idle

SyrkInit ==
  /\ \E code \in Codes, m \in 1..MaxM, n \in 0..MaxN :
       /\ syrk_lhs \in LhsInits(code, m)
       /\ syrk_rhs \in [1..(m * n) -> RhsVals(code)]
       /\ sargs = [code |-> code, m |-> m, n |-> n, lhs |-> syrk_lhs]
  /\ spc = "call"

\* SyrkTask::cpu_variant dispatched to SyrkImplBody<VariantKind::CPU, FLOAT_LT>
Syrk_FLOAT ==
  /\ spc = "call"
  /\ sargs.code = "FLOAT_LT"
  /\ syrk_lhs' = SyrkImplBody_FLOAT(syrk_lhs, syrk_rhs, sargs.m, sargs.n)
  /\ spc' = "returned"
  /\ UNCHANGED <<sargs, syrk_rhs>>
  /\ UNCHANGED otherThanSyrk

\* SyrkTask::cpu_variant dispatched to SyrkImplBody<VariantKind::CPU, DOUBLE_LT>
Syrk_DOUBLE ==
  /\ spc = "call"
  /\ sargs.code = "DOUBLE_LT"
  /\ syrk_lhs' = SyrkImplBody_DOUBLE(syrk_lhs, syrk_rhs, sargs.m, sargs.n)
  /\ spc' = "returned"
  /\ UNCHANGED <<sargs, syrk_rhs>>
  /\ UNCHANGED otherThanSyrk

\* SyrkTask::cpu_variant dispatched to SyrkImplBody<VariantKind::CPU, COMPLEX64_LT>
Syrk_COMPLEX64 ==
  /\ spc = "call"
  /\ sargs.code = "COMPLEX64_LT"
  /\ syrk_lhs' = SyrkImplBody_COMPLEX64(syrk_lhs, syrk_rhs, sargs.m, sargs.n)
  /\ spc' = "returned"
  /\ UNCHANGED <<sargs, syrk_rhs>>
  /\ UNCHANGED otherThanSyrk

\* SyrkTask::cpu_variant dispatched to SyrkImplBody<VariantKind::CPU, COMPLEX128_LT>
Syrk_COMPLEX128 ==
  /\ spc = "call"
  /\ sargs.code = "COMPLEX128_LT"
  /\ syrk_lhs' = SyrkImplBody_COMPLEX128(syrk_lhs, syrk_rhs, sargs.m, sargs.n)
  /\ spc' = "returned"
  /\ UNCHANGED <<sargs, syrk_rhs>>
  /\ UNCHANGED otherThanSyrk

-----------------------------------------------------------------------------
(* contract_omp.cc *)

Null == "nullptr"

otherThanContract == <<triluVars, syrkVars, envVars, helperVars>>

RECURSIVE CSumOver(_, _)
CSumOver(S, F) ==
  IF S = {} THEN <<0, 0>>
  ELSE LET x == CHOOSE x \in S : TRUE IN CAdd(F[x], CSumOver(S \ {x}, F))

RECURSIVE SumOver(_, _)
SumOver(S, F) ==
  IF S = {} THEN 0
  ELSE LET x == CHOOSE x \in S : TRUE IN F[x] + SumOver(S \ {x}, F)

\* tblis_init_tensor_{s,d,c,z}(&t, ndim, len, data, stride): the descriptor
\* refers to the caller's len, data and stride arrays; conj = 0, scalar = 1
tblis_init_tensor(fn, type, ndim, len, data, stride) ==
  [tensor |-> [type |-> type, conj |-> 0, scalar |-> <<1, 0>>, data |-> data,
               ndim |-> ndim, len |-> len, stride |-> stride],
   call |-> [fn |-> fn, ndim |-> ndim, len |-> len, data |-> data,
             stride |-> stride]]

tblis_init_tensor_s(ndim, len, data, stride) ==
  tblis_init_tensor("tblis_init_tensor_s", "TYPE_FLOAT", ndim, len, data, stride)
tblis_init_tensor_d(ndim, len, data, stride) ==
  tblis_init_tensor("tblis_init_tensor_d", "TYPE_DOUBLE", ndim, len, data, stride)
tblis_init_tensor_c(ndim, len, data, stride) ==
  tblis_init_tensor("tblis_init_tensor_c", "TYPE_SCOMPLEX", ndim, len, data, stride)
tblis_init_tensor_z(ndim, len, data, stride) ==
  tblis_init_tensor("tblis_init_tensor_z", "TYPE_DCOMPLEX", ndim, len, data, stride)

\* the labels of a tensor with modes array idx
LabelsOf(m, T, idx) == { m[idx][d] : d \in 1..T.ndim }

\* the index assignments over the labels L, each label within its extent
Assignments(L, ext) ==
  IF L = {} THEN { <<>> }
  ELSE LET top == CHOOSE e \in { ext[l] : l \in L } : \A l \in L : ext[l] <= e
       IN  { a \in [L -> 0..(top - 1)] : \A l \in L : a[l] < ext[l] }

\* the offset in T's data of the element that assignment a selects
OffsetOf(m, a, T, idx) ==
  SumOver(1..T.ndim, [d \in 1..T.ndim |-> a[m[idx][d]] * m[T.stride][d]])

\* the element of T at assignment a, conjugated when T.conj is set
ElementOf(m, a, T, idx) ==
  LET x == m[T.data][OffsetOf(m, a, T, idx) + 1]
  IN  IF T.conj = 1 THEN Conj(x) ELSE x

\* tblis_tensor_mult(comm, cfg, A, idx_A, B, idx_B, C, idx_C), as tblis
\* documents it (with descriptors of scalar 1: C[idx_C] += A[idx_A] * B[idx_B]):
\*   C[idx_C] := (A.scalar * B.scalar) * sum A[idx_A] * B[idx_B] + C.scalar * C[idx_C]
\* the sum running over the labels of A and B that are not labels of C
tblis_tensor_mult(m, comm, cfg, A, idx_A, B, idx_B, C, idx_C) ==
  LET LA == LabelsOf(m, A, idx_A)
      LB == LabelsOf(m, B, idx_B)
      LC == LabelsOf(m, C, idx_C)
      extIn(T, idx, l) == m[T.len][CHOOSE d \in 1..T.ndim : m[idx][d] = l]
      ext == [l \in LA \cup LB \cup LC |->
                IF l \in LA THEN extIn(A, idx_A, l)
                ELSE IF l \in LB THEN extIn(B, idx_B, l)
                ELSE extIn(C, idx_C, l)]
      LS == (LA \cup LB) \ LC
      alpha == CMul(A.scalar, B.scalar)
      beta == C.scalar
      sum(c) == CSumOver(Assignments(LS, ext),
                         [s \in Assignments(LS, ext) |->
                            CMul(ElementOf(m, c @@ s, A, idx_A),
                                 ElementOf(m, c @@ s, B, idx_B))])
      newC == [o \in 1..Len(m[C.data]) |->
                 IF \E c \in Assignments(LC, ext) : OffsetOf(m, c, C, idx_C) + 1 = o
                   THEN LET c == CHOOSE c \in Assignments(LC, ext) :
                                   OffsetOf(m, c, C, idx_C) + 1 = o
                        IN  CAdd(CMul(alpha, sum(c)),
                                 CMul(beta, ElementOf(m, c, C, idx_C)))
                   ELSE m[C.data][o]]
  IN  [mem |-> [m EXCEPT ![C.data] = newC],
       call |-> [fn |-> "tblis_tensor_mult", comm |-> comm, cfg |-> cfg,
                 A |-> A, idx_A |-> idx_A, B |-> B, idx_B |-> idx_B,
                 C |-> C, idx_C |-> idx_C]]

\* ContractImplBody<VariantKind::OMP, ...>::operator(): the memory after the
\* call and the tblis calls made
ContractImplBody_FLOAT_out_rhs1(m, lhs_ndim, rhs1_ndim, rhs2_ndim) ==
  LET lhs  == tblis_init_tensor_s(lhs_ndim, "lhs_shape", "lhs_data", "lhs_strides")
      rhs1 == tblis_init_tensor_s(rhs1_ndim, "rhs1_shape", "rhs1_data", "rhs1_strides")
      rhs2 == tblis_init_tensor_s(rhs2_ndim, "rhs2_shape", "rhs2_data", "rhs2_strides")
      mult == tblis_tensor_mult(m, Null, Null, lhs.tensor, "lhs_modes",
                                rhs2.tensor, "rhs2_modes", rhs1.tensor, "rhs1_modes")
  IN  [mem |-> mult.mem, calls |-> <<lhs.call, rhs1.call, rhs2.call, mult.call>>]
ContractImplBody_FLOAT(m, lhs_ndim, rhs1_ndim, rhs2_ndim) ==
  LET lhs  == tblis_init_tensor_s(lhs_ndim, "lhs_shape", "lhs_data", "lhs_strides")
      rhs1 == tblis_init_tensor_s(rhs1_ndim, "rhs1_shape", "rhs1_data", "rhs1_strides")
      rhs2 == tblis_init_tensor_s(rhs2_ndim, "rhs2_shape", "rhs2_data", "rhs2_strides")
      mult == tblis_tensor_mult(m, Null, Null, rhs1.tensor, "rhs1_modes",
                                rhs2.tensor, "rhs2_modes", lhs.tensor, "lhs_modes")
  IN  [mem |-> mult.mem, calls |-> <<lhs.call, rhs1.call, rhs2.call, mult.call>>]

ContractImplBody_DOUBLE_rhs1_twice(m, lhs_ndim, rhs1_ndim, rhs2_ndim) ==
  LET lhs  == tblis_init_tensor_d(lhs_ndim, "lhs_shape", "lhs_data", "lhs_strides")
      rhs1 == tblis_init_tensor_d(rhs1_ndim, "rhs1_shape", "rhs1_data", "rhs1_strides")
      rhs2 == tblis_init_tensor_d(rhs2_ndim, "rhs2_shape", "rhs2_data", "rhs2_strides")
      mult == tblis_tensor_mult(m, Null, Null, rhs1.tensor, "rhs1_modes",
                                rhs1.tensor, "rhs1_modes", lhs.tensor, "lhs_modes")
  IN  [mem |-> mult.mem, calls |-> <<lhs.call, rhs1.call, rhs2.call, mult.call>>]
ContractImplBody_DOUBLE(m, lhs_ndim, rhs1_ndim, rhs2_ndim) ==
  LET lhs  == tblis_init_tensor_d(lhs_ndim, "lhs_shape", "lhs_data", "lhs_strides")
      rhs1 == tblis_init_tensor_d(rhs1_ndim, "rhs1_shape", "rhs1_data", "rhs1_strides")
      rhs2 == tblis_init_tensor_d(rhs2_ndim, "rhs2_shape", "rhs2_data", "rhs2_strides")
      mult == tblis_tensor_mult(m, Null, Null, rhs1.tensor, "rhs1_modes",
                                rhs2.tensor, "rhs2_modes", lhs.tensor, "lhs_modes")
  IN  [mem |-> mult.mem, calls |-> <<lhs.call, rhs1.call, rhs2.call, mult.call>>]

ContractImplBody_COMPLEX64_init_z(m, lhs_ndim, rhs1_ndim, rhs2_ndim) ==
  LET lhs  == tblis_init_tensor_c(lhs_ndim, "lhs_shape", "lhs_data", "lhs_strides")
      rhs1 == tblis_init_tensor_c(rhs1_ndim, "rhs1_shape", "rhs1_data", "rhs1_strides")
      rhs2 == tblis_init_tensor_z(rhs2_ndim, "rhs2_shape", "rhs2_data", "rhs2_strides")
      mult == tblis_tensor_mult(m, Null, Null, rhs1.tensor, "rhs1_modes",
                                rhs2.tensor, "rhs2_modes", lhs.tensor, "lhs_modes")
  IN  [mem |-> mult.mem, calls |-> <<lhs.call, rhs1.call, rhs2.call, mult.call>>]
ContractImplBody_COMPLEX64(m, lhs_ndim, rhs1_ndim, rhs2_ndim) ==
  LET lhs  == tblis_init_tensor_c(lhs_ndim, "lhs_shape", "lhs_data", "lhs_strides")
      rhs1 == tblis_init_tensor_c(rhs1_ndim, "rhs1_shape", "rhs1_data", "rhs1_strides")
      rhs2 == tblis_init_tensor_c(rhs2_ndim, "rhs2_shape", "rhs2_data", "rhs2_strides")
      mult == tblis_tensor_mult(m, Null, Null, rhs1.tensor, "rhs1_modes",
                                rhs2.tensor, "rhs2_modes", lhs.tensor, "lhs_modes")
  IN  [mem |-> mult.mem, calls |-> <<lhs.call, rhs1.call, rhs2.call, mult.call>>]

ContractImplBody_COMPLEX128(m, lhs_ndim, rhs1_ndim, rhs2_ndim) ==
  LET lhs  == tblis_init_tensor_z(lhs_ndim, "lhs_shape", "lhs_data", "lhs_strides")
      rhs1 == tblis_init_tensor_z(rhs1_ndim, "rhs1_shape", "rhs1_data", "rhs1_strides")
      rhs2 == tblis_init_tensor_z(rhs2_ndim, "rhs2_shape", "rhs2_data", "rhs2_strides")
      mult == tblis_tensor_mult(m, Null, Null, rhs1.tensor, "rhs1_modes",
                                rhs2.tensor, "rhs2_modes", lhs.tensor, "lhs_modes")
  IN  [mem |-> mult.mem, calls |-> <<lhs.call, rhs1.call, rhs2.call, mult.call>>]

\* strides of a dense tensor: "C" (last mode fastest) or "F" (first mode fastest)
StridesOf(shape, layout) ==
  [d \in 1..Len(shape) |->
     IF layout = "C" THEN Product(SubSeq(shape, d + 1, Len(shape)))
                     ELSE Product(SubSeq(shape, 1, d - 1))]

\* the mode labels of the contractions handed to the task:
\*   ik,kj->ij   k,k->   i,j->ij   ki,jk->ji   ik,k->i
Einsums ==
  { [lhs |-> <<0, 1>>, rhs1 |-> <<0, 2>>, rhs2 |-> <<2, 1>>],
    [lhs |-> <<>>,     rhs1 |-> <<2>>,    rhs2 |-> <<2>>],
    [lhs |-> <<0, 1>>, rhs1 |-> <<0>>,    rhs2 |-> <<1>>],
    [lhs |-> <<1, 0>>, rhs1 |-> <<2, 0>>, rhs2 |-> <<1, 2>>],
    [lhs |-> <<0>>,    rhs1 |-> <<0, 2>>, rhs2 |-> <<2>>] }

\* the contents of a data buffer: all zero for seed 0
DataOf(seed, len, code) ==
  [o \in 1..len |->
     IF seed = 0 THEN <<0, 0>>
     ELSE << ((seed + o) % 3) - 1,
             IF code \in RealCodes THEN 0 ELSE ((seed + 2 * o) % 3) - 1 >>]

ContractIdle == cargs = Idle /\ mem = Idle /\ calls = <<>> /\ cpc = Idle

ContractInit ==
  /\ \E code \in Codes, e \in Einsums, ext \in [0..2 -> 1..MaxExt],
        layout \in {"C", "F"}, s0 \in {0, 1, 2}, s1 \in {1, 2}, s2 \in {1, 2} :
       LET shape(modes) == [d \in 1..Len(modes) |-> ext[modes[d]]]
       IN  /\ mem = [lhs_data     |-> DataOf(s0, Product(shape(e.lhs)), code),
                     lhs_shape    |-> shape(e.lhs),
                     lhs_strides  |-> StridesOf(shape(e.lhs), layout),
                     lhs_modes    |-> e.lhs,
                     rhs1_data    |-> DataOf(s1, Product(shape(e.rhs1)), code),
                     rhs1_shape   |-> shape(e.rhs1),
                     rhs1_strides |-> StridesOf(shape(e.rhs1), layout),
                     rhs1_modes   |-> e.rhs1,
                     rhs2_data    |-> DataOf(s2, Product(shape(e.rhs2)), code),
                     rhs2_shape   |-> shape(e.rhs2),
                     rhs2_strides |-> StridesOf(shape(e.rhs2), layout),
                     rhs2_modes   |-> e.rhs2]
           /\ cargs = [code |-> code, lhs_ndim |-> Len(e.lhs),
                       rhs1_ndim |-> Len(e.rhs1), rhs2_ndim |-> Len(e.rhs2),
                       ext |-> ext, mem |-> mem]
  /\ calls = <<>>
  /\ cpc = "call"

\* ContractTask::omp_variant dispatched to ContractImplBody<VariantKind::OMP, FLOAT_LT>
Contract_FLOAT ==
  /\ cpc = "call"
  /\ cargs.code = "FLOAT_LT"
  /\ LET r == ContractImplBody_FLOAT(mem, cargs.lhs_ndim, cargs.rhs1_ndim, cargs.rhs2_ndim)
     IN  mem' = r.mem /\ calls' = calls \o r.calls
  /\ cpc' = "returned"
  /\ UNCHANGED cargs
  /\ UNCHANGED otherThanContract

\* ContractTask::omp_variant dispatched to ContractImplBody<VariantKind::OMP, DOUBLE_LT>
Contract_DOUBLE ==
  /\ cpc = "call"
  /\ cargs.code = "DOUBLE_LT"
  /\ LET r == ContractImplBody_DOUBLE(mem, cargs.lhs_ndim, cargs.rhs1_ndim, cargs.rhs2_ndim)
     IN  mem' = r.mem /\ calls' = calls \o r.calls
  /\ cpc' = "returned"
  /\ UNCHANGED cargs
  /\ UNCHANGED otherThanContract

\* ContractTask::omp_variant dispatched to ContractImplBody<VariantKind::OMP, COMPLEX64_LT>
Contract_COMPLEX64 ==
  /\ cpc = "call"
  /\ cargs.code = "COMPLEX64_LT"
  /\ LET r == ContractImplBody_COMPLEX64(mem, cargs.lhs_ndim, cargs.rhs1_ndim, cargs.rhs2_ndim)
     IN  mem' = r.mem /\ calls' = calls \o r.calls
  /\ cpc' = "returned"
  /\ UNCHANGED cargs
  /\ UNCHANGED otherThanContract

\* ContractTask::omp_variant dispatched to ContractImplBody<VariantKind::OMP, COMPLEX128_LT>
Contract_COMPLEX128 ==
  /\ cpc = "call"
  /\ cargs.code = "COMPLEX128_LT"
  /\ LET r == ContractImplBody_COMPLEX128(mem, cargs.lhs_ndim, cargs.rhs1_ndim, cargs.rhs2_ndim)
     IN  mem' = r.mem /\ calls' = calls \o r.calls
  /\ cpc' = "returned"
  /\ UNCHANGED cargs
  /\ UNCHANGED otherThanContract

-----------------------------------------------------------------------------
(* contract_omp.cc: ContractTask::omp_variant *)

otherThanEnv == <<triluVars, syrkVars, contractVars, helperVars>>

Unset == "unset"

Digit(d) ==
  CASE d = 0 -> "0" [] d = 1 -> "1" [] d = 2 -> "2" [] d = 3 -> "3" [] d = 4 -> "4"
    [] d = 5 -> "5" [] d = 6 -> "6" [] d = 7 -> "7" [] d = 8 -> "8" [] d = 9 -> "9"

\* ss << omp_get_max_threads(); str = ss.str(): the decimal digits of a
\* positive int, most significant first
RECURSIVE ToDecimal(_)
ToDecimal(v) ==
  IF v < 10 THEN <<Digit(v)>> ELSE ToDecimal(v \div 10) \o <<Digit(v % 10)>>

\* the values omp_get_max_threads() returns; it may differ from call to call
OmpMaxThreads == {4, 12}

\* TBLIS_NUM_THREADS when the process starts: unset, or set by the user
EnvAtStart == {Unset, <<"2">>, <<>>}

\* setenv(name, value, overwrite) is not required to be thread-safe.  A libc
\* that serialises it under a lock ("locked") looks the name up and adds it in
\* one step; a libc without the lock ("unlocked") does the two separately.
LibcBuilds == {"locked", "unlocked"}

OmpProcs == 1..NumOmpProcs

\* setenv with overwrite = false: an existing value is kept
SetenvNoOverwrite(old, value) == IF old = Unset THEN value ELSE old

EnvIdle ==
  /\ eargs = Idle /\ env = Idle /\ envlog = <<>>
  /\ opc = <<>> /\ ostr = <<>> /\ ocalls = <<>>

EnvInit ==
  /\ \E libc \in LibcBuilds, e \in EnvAtStart :
       eargs = [libc |-> libc, env |-> e] /\ env = e
  /\ envlog = <<>>
  /\ opc = [t \in OmpProcs |-> "idle"]
  /\ ostr = [t \in OmpProcs |-> <<>>]
  /\ ocalls = [t \in OmpProcs |-> 0]

\* omp_variant: ss << omp_get_max_threads(); std::string str = ss.str();
OmpVariantFormat(t) ==
  /\ opc[t] = "idle"
  /\ ocalls[t] < MaxCalls
  /\ \E v \in OmpMaxThreads : ostr' = [ostr EXCEPT ![t] = ToDecimal(v)]
  /\ opc' = [opc EXCEPT ![t] = "setenv"]
  /\ UNCHANGED <<eargs, env, envlog, ocalls>>
  /\ UNCHANGED otherThanEnv

\* omp_variant: setenv("TBLIS_NUM_THREADS", str.data(), false), serialised
SetenvLocked(t) ==
  /\ opc[t] = "setenv"
  /\ eargs.libc = "locked"
  /\ env' = SetenvNoOverwrite(env, ostr[t])
  /\ envlog' = IF env' # env THEN Append(envlog, [by |-> t, value |-> env'])
                             ELSE envlog
  /\ opc' = [opc EXCEPT ![t] = "contract"]
  /\ UNCHANGED <<eargs, ostr, ocalls>>
  /\ UNCHANGED otherThanEnv

\* setenv without a lock, first half: look TBLIS_NUM_THREADS up; with
\* overwrite = false an existing value ends the call
SetenvLookup(t) ==
  /\ opc[t] = "setenv"
  /\ eargs.libc = "unlocked"
  /\ opc' = [opc EXCEPT ![t] = IF env # Unset THEN "contract" ELSE "put"]
  /\ UNCHANGED <<eargs, env, envlog, ostr, ocalls>>
  /\ UNCHANGED otherThanEnv

\* setenv without a lock, second half: store the new value
SetenvPut(t) ==
  /\ opc[t] = "put"
  /\ env' = ostr[t]
  /\ envlog' = Append(envlog, [by |-> t, value |-> ostr[t]])
  /\ opc' = [opc EXCEPT ![t] = "contract"]
  /\ UNCHANGED <<eargs, ostr, ocalls>>
  /\ UNCHANGED otherThanEnv

\* omp_variant: contract_template<VariantKind::OMP>(context); return
ContractTemplate(t) ==
  /\ opc[t] = "contract"
  /\ opc' = [opc EXCEPT ![t] = "idle"]
  /\ ostr' = [ostr EXCEPT ![t] = <<>>]
  /\ ocalls' = [ocalls EXCEPT ![t] = @ + 1]
  /\ UNCHANGED <<eargs, env, envlog>>
  /\ UNCHANGED otherThanEnv

-----------------------------------------------------------------------------
(* syrk.cc, CUDA helpers: the CHECK_* macros and the check_* functions *)

\* none of the CUDA helpers in use, except the one that is running
HelpersIdle(running) ==
  /\ running # "check" =>
       chk = Idle /\ chkpc = Idle /\ stderr = <<>> /\ exitstatus = Idle
  /\ running # "reduce" =>
       /\ rargs = Idle /\ values = Idle /\ trampoline = Idle /\ wpc = Idle
       /\ result = Idle /\ rlog = <<>>
  /\ running # "ptx" => pargs = Idle /\ gmem = Idle /\ plog = <<>>

otherThanCheck ==
  <<triluVars, syrkVars, contractVars, envVars,
    rargs, values, trampoline, wpc, result, rlog, pargs, gmem, plog>>

\* cudaSuccess, CUBLAS_STATUS_SUCCESS, CUFFT_SUCCESS, CUSOLVER_STATUS_SUCCESS,
\* CUTENSOR_STATUS_SUCCESS: the success enumerator of every library is 0
StatusSuccess == 0

\* the statuses a call of each library returns, by the CHECK_* macro used:
\*   cudaError_t: cudaSuccess, cudaErrorInvalidValue,
\*     cudaErrorMemoryAllocation, cudaErrorNoDevice, cudaErrorIllegalAddress,
\*     cudaErrorLaunchFailure, cudaErrorUnknown
\*   cublasStatus_t, cutensorStatus_t: SUCCESS, NOT_INITIALIZED, ALLOC_FAILED,
\*     INVALID_VALUE, EXECUTION_FAILED
\*   cufftResult: SUCCESS, INVALID_PLAN, ALLOC_FAILED, INTERNAL_ERROR
\*   cusolverStatus_t: SUCCESS, NOT_INITIALIZED, ALLOC_FAILED, INVALID_VALUE,
\*     INTERNAL_ERROR
StatusesOf ==
  [cuda |-> {0, 1, 2, 100, 700, 719, 999},
   cublas |-> {0, 1, 3, 7, 13},
   cufft |-> {0, 1, 2, 5},
   cusolver |-> {0, 1, 2, 3, 7},
   cutensor |-> {0, 1, 3, 7, 13}]

\* exit(status): the parent of the process is given status & 0377
ExitStatusFull(status) == status
ExitStatus(status) == status % 256

\* what a check_* function leaves behind: where control is, stderr, and the
\* exit status of the process
Returns(err) == [pc |-> "returned", stderr |-> err, exit |-> Undef]

Exits(err, diagnostic, status) ==
  [pc |-> "exited", stderr |-> Append(err, diagnostic),
   exit |-> ExitStatus(status)]

\* the effect of a check_* function on the process
Checked(after) ==
  /\ chkpc' = after.pc
  /\ stderr' = after.stderr
  /\ exitstatus' = after.exit
  /\ UNCHANGED chk
  /\ UNCHANGED otherThanCheck

\* CHECK_CUDA(expr) has evaluated expr and calls
\* check_cuda(result, __FILE__, __LINE__)
check_cuda ==
  /\ chkpc = "call" /\ chk.lib = "cuda"
  /\ Checked(IF chk.status # StatusSuccess
               THEN Exits(stderr,
                          [text |-> "Internal CUDA failure with error",
                           error |-> << <<"cudaGetErrorString", chk.status>>,
                                        <<"cudaGetErrorName", chk.status>> >>,
                           file |-> chk.file, line |-> chk.line],
                          chk.status)
               ELSE Returns(stderr))

check_cublas ==
  /\ chkpc = "call" /\ chk.lib = "cublas"
  /\ Checked(IF chk.status # StatusSuccess
               THEN Exits(stderr,
                          [text |-> "Internal cuBLAS failure with error code",
                           error |-> << <<"%d", chk.status>> >>,
                           file |-> chk.file, line |-> chk.line],
                          chk.status)
               ELSE Returns(stderr))

check_cufft ==
  /\ chkpc = "call" /\ chk.lib = "cufft"
  /\ Checked(IF chk.status # StatusSuccess
               THEN Exits(stderr,
                          [text |-> "Internal cuFFT failure with error code",
                           error |-> << <<"%d", chk.status>> >>,
                           file |-> chk.file, line |-> chk.line],
                          chk.status)
               ELSE Returns(stderr))

check_cusolver ==
  /\ chkpc = "call" /\ chk.lib = "cusolver"
  /\ Checked(IF chk.status # StatusSuccess
               THEN Exits(stderr,
                          [text |-> "Internal cuSOLVER failure with error code",
                           error |-> << <<"%d", chk.status>> >>,
                           file |-> chk.file, line |-> chk.line],
                          chk.status)
               ELSE Returns(stderr))

check_cutensor ==
  /\ chkpc = "call" /\ chk.lib = "cutensor"
  /\ Checked(IF chk.status # StatusSuccess
               THEN Exits(stderr,
                          [text |-> "Internal Legate CUTENSOR failure with error",
                           error |-> << <<"cutensorGetErrorString", chk.status>>,
                                        <<"%d", chk.status>> >>,
                           file |-> chk.file, line |-> chk.line],
                          chk.status)
               ELSE Returns(stderr))

-----------------------------------------------------------------------------
(* syrk.cc, CUDA helpers: shuffle, reduce_output and reduce_bool *)

otherThanReduce ==
  <<triluVars, syrkVars, contractVars, envVars,
    chk, chkpc, stderr, exitstatus, pargs, gmem, plog>>

\* the last slot of trampoline[THREADS_PER_BLOCK / 32]
LastSlot == (THREADS_PER_BLOCK \div WarpSize) - 1

\* the threads of one block and its warps
Threads == 0..(THREADS_PER_BLOCK - 1)
Warps == 0..LastSlot

\* const int laneid = threadIdx.x & 0x1f;
laneid(threadIdx) == threadIdx % WarpSize
\* const int warpid = threadIdx.x >> 5;
warpid(threadIdx) == threadIdx \div WarpSize

\* __shfl_xor_sync(0xffffffff, var, laneMask, 32) as executed by thread t, vars
\* being the var of every thread: the var of the thread of the same warp whose
\* lane is laneid ^ laneMask (laneMask a power of two below the warp size)
ShflXorSync(vars_, t, laneMask) ==
  vars_[(warpid(t) * WarpSize)
          + (IF (laneid(t) \div laneMask) % 2 = 0
               THEN laneid(t) + laneMask ELSE laneid(t) - laneMask)]

\* shuffle(0xffffffff, var, laneMask, 32): var is copied to an array of int,
\* every int array[k] is replaced by the array[k] that __shfl_xor_sync brings
\* from the other lane, and the array is copied back
shuffle_first_word(vals, t, laneMask) ==
  [k \in DOMAIN vals[t] |->
     IF k = 1 THEN ShflXorSync(vals, t, laneMask)[k] ELSE vals[t][k]]
shuffle(vals, t, laneMask) ==
  [k \in DOMAIN vals[t] |-> ShflXorSync(vals, t, laneMask)[k]]

\* REDUCTION::fold<true>(lhs, rhs) of the reductions handed to reduce_output:
\* sums and products, of integers (generic overload) and of complex numbers
Fold(fn, REDUCTION, lhs, rhs) ==
  CASE fn = "reduce_output" /\ REDUCTION = "SumReduction" -> lhs + rhs
    [] fn = "reduce_output" /\ REDUCTION = "ProdReduction" -> lhs * rhs
    [] fn = "reduce_output_complex" /\ REDUCTION = "SumReduction" ->
         CAdd(lhs, rhs)
    [] fn = "reduce_output_complex" /\ REDUCTION = "ProdReduction" ->
         CMul(lhs, rhs)

\* reduce_bool, the loop across the warp, as run in lockstep by the lanes of
\* warp w:  for (int i = 16; i >= 1; i /= 2) {
\*            shuffle_value = __shfl_xor_sync(0xffffffff, value, i, 32);
\*            if (shuffle_value == 0) value = 0; }
\* (vals @@ <<>> is vals, kept as an explicit function)
RECURSIVE BoolWarpLoop(_, _, _)
BoolWarpLoop(vals, w, i) ==
  IF i < 1 THEN vals
  ELSE BoolWarpLoop(
         [t \in Threads |->
            IF warpid(t) = w /\ ShflXorSync(vals, t, i) = 0
              THEN 0 ELSE vals[t]] @@ <<>>,
         w, i \div 2)

\* reduce_output (generic), the loop across the warp
RECURSIVE OutWarpLoop(_, _, _, _)
OutWarpLoop(REDUCTION, vals, w, i) ==
  IF i < 1 THEN vals
  ELSE OutWarpLoop(REDUCTION,
         [t \in Threads |->
            IF warpid(t) = w
              THEN Fold("reduce_output", REDUCTION,
                        vals[t], ShflXorSync(vals, t, i))
              ELSE vals[t]] @@ <<>>,
         w, i \div 2)

\* reduce_output (complex<T>), the loop across the warp
RECURSIVE ComplexWarpLoop(_, _, _, _)
ComplexWarpLoop(REDUCTION, vals, w, i) ==
  IF i < 1 THEN vals
  ELSE ComplexWarpLoop(REDUCTION,
         [t \in Threads |->
            IF warpid(t) = w
              THEN Fold("reduce_output_complex", REDUCTION,
                        vals[t], shuffle(vals, t, i))
              ELSE vals[t]] @@ <<>>,
         w, i \div 2)

\* threads whose input differs from the input of the others: no thread, any
\* one thread of the block, or up to MaxMarked threads at the corners of the
\* warps
MarkedSets ==
  {{}} \cup { {t} : t \in Threads }
       \cup { Z \in SUBSET {0, 1, 31, 32, 63, 64, 96, 127} :
                Cardinality(Z) <= MaxMarked }

InputOf(marked, special, normal) ==
  [t \in Threads |-> IF t \in marked THEN special ELSE normal]

\* the value of the marked threads, the value of the others, and the value
\* behind result before the call, for each overload and REDUCTION
ValuesOf(fn, REDUCTION) ==
  CASE fn = "reduce_output" /\ REDUCTION = "SumReduction" ->
         [special |-> 3, normal |-> 1, result |-> 10]
    [] fn = "reduce_output" /\ REDUCTION = "ProdReduction" ->
         [special |-> 2, normal |-> 1, result |-> 3]
    [] fn = "reduce_output_complex" /\ REDUCTION = "SumReduction" ->
         [special |-> <<0, 2>>, normal |-> <<1, -1>>, result |-> <<5, 5>>]
    [] fn = "reduce_output_complex" /\ REDUCTION = "ProdReduction" ->
         [special |-> <<0, 1>>, normal |-> <<1, 0>>, result |-> <<2, 0>>]

\* what reads of the trampoline slots that were never written may return
SlotChoices ==
  [1..LastSlot ->
     IF rargs.fn = "reduce_output_complex" THEN {<<0, 0>>, <<1, 1>>} ELSE {0, 1}]

\* warp w from the call to the barrier: the loop across the warp, which
\* touches the registers of its lanes only, then
\*   if ((laneid == 0) && (warpid > 0)) trampoline[warpid] = value;
\* its one access to shared memory, and the wait in __syncthreads()
WarpToBarrier(w, after) ==
  /\ wpc[w] = "reduce"
  /\ values' = after
  /\ trampoline' = IF w > 0
                     THEN [trampoline EXCEPT ![w] = <<after[w * WarpSize]>>]
                     ELSE trampoline
  /\ wpc' = [wpc EXCEPT ![w] = "sync"]
  /\ UNCHANGED <<rargs, result, rlog>>
  /\ UNCHANGED otherThanReduce

\* __syncthreads(): passed once every warp of the block has arrived
syncthreads_warp0 == wpc[0] = "sync"
syncthreads == \A w \in Warps : wpc[w] = "sync"

\* the barrier of reduce_bool and of reduce_output opens: thread 0 goes on to
\* the output reduction, the threads of the other warps have nothing left to do
Barrier ==
  /\ syncthreads
  /\ wpc' = [w \in Warps |->
               IF wpc[w] # "sync" THEN wpc[w]
               ELSE IF w = 0 THEN "output" ELSE "done"]
  /\ UNCHANGED <<rargs, values, trampoline, result, rlog>>
  /\ UNCHANGED otherThanReduce

\* the loads of trampoline[1..last] by thread 0, in order, each with what it
\* returned and the slots that had been stored to when it was made
Loads(last) ==
  [i \in 1..last |->
     [op |-> "load", slot |-> i, val |-> trampoline[i],
      stored |-> { w \in Warps : trampoline[w] # <<>> }]]

\* trampoline[i] as read by thread 0; g[i] if the slot was never written
SlotValue(i, g) == IF trampoline[i] = <<>> THEN g[i] ELSE trampoline[i][1]

\* for (int i = 1; i < (THREADS_PER_BLOCK / 32); i++)
\*   REDUCTION::template fold<true>(value, trampoline[i]);
RECURSIVE FoldSlots(_, _, _)
FoldSlots(v, i, g) ==
  IF i > LastSlot THEN v
  ELSE FoldSlots(Fold(rargs.fn, rargs.REDUCTION, v, SlotValue(i, g)), i + 1, g)

\* reduce_output, the output reduction of thread 0, ending in result <<= value
OutOutput(g) ==
  LET v == FoldSlots(values[0], 1, g)
  IN  /\ wpc[0] = "output"
      /\ values' = [values EXCEPT ![0] = v]
      /\ result' = Fold(rargs.fn, rargs.REDUCTION, result, v)
      /\ rlog' = rlog \o Loads(LastSlot) \o
                   <<[op |-> "result", slot |-> 0, val |-> <<v>>]>>
      /\ wpc' = [wpc EXCEPT ![0] = "done"]
      /\ UNCHANGED <<rargs, trampoline>>
      /\ UNCHANGED otherThanReduce

(* reduce_bool *)
reduce_bool_warp(w) ==
  /\ rargs.fn = "reduce_bool"
  /\ WarpToBarrier(w, BoolWarpLoop(values, w, WarpSize \div 2))

\* reduce_bool, the output reduction of thread 0
reduce_bool_output ==
  \E g \in SlotChoices :
    LET zeros == { i \in 1..LastSlot : SlotValue(i, g) = 0 }
        stop == IF zeros = {} THEN LastSlot
                ELSE CHOOSE i \in zeros : \A j \in zeros : i <= j
        v == IF zeros = {} THEN values[0] ELSE 0
    IN  /\ rargs.fn = "reduce_bool"
        /\ wpc[0] = "output"
        /\ values' = [values EXCEPT ![0] = v]
        /\ result' = IF v = 0 THEN FALSE ELSE result
        /\ rlog' = rlog \o Loads(stop) \o
                     (IF v = 0
                        THEN <<[op |-> "result", slot |-> 0, val |-> <<FALSE>>]>>
                        ELSE <<>>)
        /\ wpc' = [wpc EXCEPT ![0] = "done"]
        /\ UNCHANGED <<rargs, trampoline>>
        /\ UNCHANGED otherThanReduce

(* reduce_output, generic *)
reduce_output_warp(w) ==
  /\ rargs.fn = "reduce_output"
  /\ WarpToBarrier(w, OutWarpLoop(rargs.REDUCTION, values, w, WarpSize \div 2))

reduce_output_output ==
  rargs.fn = "reduce_output" /\ \E g \in SlotChoices : OutOutput(g)

(* reduce_output, complex<T> *)
reduce_output_complex_warp(w) ==
  /\ rargs.fn = "reduce_output_complex"
  /\ WarpToBarrier(w,
                   ComplexWarpLoop(rargs.REDUCTION, values, w, WarpSize \div 2))

reduce_output_complex_output ==
  rargs.fn = "reduce_output_complex" /\ \E g \in SlotChoices : OutOutput(g)

-----------------------------------------------------------------------------
(* syrk.cc, CUDA helpers: load_cached, load_l2, load_streaming and
   store_streaming *)

otherThanPtx ==
  <<triluVars, syrkVars, contractVars, envVars,
    chk, chkpc, stderr, exitstatus,
    rargs, values, trampoline, wpc, result, rlog>>

\* the types the four templates are specialised for; int8_t is a type they
\* are not specialised for, which takes the generic template
Specialised ==
  {"uint16_t", "uint32_t", "uint64_t", "int16_t", "int32_t", "int64_t",
   "float", "double"}
Types == Specialised \cup {"int8_t"}

\* sizeof(T), in bytes
SizeOf(T) ==
  CASE T = "int8_t" -> 1
    [] T \in {"uint16_t", "int16_t"} -> 2
    [] T \in {"uint32_t", "int32_t", "float"} -> 4
    [] T \in {"uint64_t", "int64_t", "double"} -> 8

\* the type suffix of the ld / st instruction in the specialisation for T
PtxTypeOf_s32(T) ==
  CASE T = "uint16_t" -> "u16" [] T = "uint32_t" -> "u32"
    [] T = "uint64_t" -> "u64" [] T = "int16_t" -> "s16"
    [] T = "int32_t" -> "s32" [] T = "int64_t" -> "s32"
    [] T = "float" -> "f32" [] T = "double" -> "f64"
PtxTypeOf(T) ==
  CASE T = "uint16_t" -> "u16" [] T = "uint32_t" -> "u32"
    [] T = "uint64_t" -> "u64" [] T = "int16_t" -> "s16"
    [] T = "int32_t" -> "s32" [] T = "int64_t" -> "s64"
    [] T = "float" -> "f32" [] T = "double" -> "f64"

\* the register constraint of the value operand in the specialisation for T
ConstraintOf(T) ==
  CASE T \in {"uint16_t", "int16_t"} -> "h"
    [] T \in {"uint32_t", "int32_t"} -> "r"
    [] T \in {"uint64_t", "int64_t"} -> "l"
    [] T = "float" -> "f"
    [] T = "double" -> "d"

\* bytes moved by an instruction of a type suffix, and bytes of the register
\* of an operand constraint
BytesOf(x) ==
  CASE x \in {"u16", "s16", "h"} -> 2
    [] x \in {"u32", "s32", "f32", "r", "f"} -> 4
    [] x \in {"u64", "s64", "f64", "l", "d"} -> 8

\* n bytes of a little-endian value, cut or filled with zero bytes
Resize(bytes, n) == [k \in 1..n |-> IF k <= Len(bytes) THEN bytes[k] ELSE 0]

\* *ptr and *ptr = value for a T* ptr
Deref(m, T, ptr) == [k \in 1..SizeOf(T) |-> m[ptr + k - 1]]

Assign(m, T, ptr, v) ==
  [a \in DOMAIN m |->
     IF a \in ptr..(ptr + SizeOf(T) - 1) THEN v[a - ptr + 1] ELSE m[a]]

\* ld.global.<cop>.<type> %0, [%1]: the bytes at the address, whatever the
\* cache operator, into the register of the value operand
LdGlobal(m, cop, ptxType, constraint, ptr) ==
  Resize([k \in 1..BytesOf(ptxType) |-> m[ptr + k - 1]], BytesOf(constraint))

\* st.global.<cop>.<type> [%0], %1: the low bytes of the register to the
\* address, whatever the cache operator
StGlobal(m, cop, ptxType, constraint, ptr, v) ==
  LET reg == Resize(v, BytesOf(constraint))
  IN  [a \in DOMAIN m |->
         IF a \in ptr..(ptr + BytesOf(ptxType) - 1) THEN reg[a - ptr + 1]
         ELSE m[a]]

\* a load template: the specialisation with its cache operator, or return *ptr
LoadTemplate(m, cop, T, ptr) ==
  IF T \in Specialised
    THEN Resize(LdGlobal(m, cop, PtxTypeOf(T), ConstraintOf(T), ptr), SizeOf(T))
    ELSE Deref(m, T, ptr)

\* the store template: the memory after the specialisation, or after
\* *ptr = value
StoreTemplate(m, cop, T, ptr, v) ==
  IF T \in Specialised
    THEN StGlobal(m, cop, PtxTypeOf(T), ConstraintOf(T), ptr, v)
    ELSE Assign(m, T, ptr, v)

\* the T* pointers handed to the templates: the first and the last object of
\* type T in the MemBytes bytes of global memory
PointersOf(T) ==
  {0, ((MemBytes \div SizeOf(T)) - 1) * SizeOf(T)}

\* the record of one call: template, type, pointer, value argument, return
\* value, and global memory before and after the call
Call(fn, T, ptr, arg, ret, before, after) ==
  [fn |-> fn, T |-> T, ptr |-> ptr, arg |-> arg, ret |-> ret,
   before |-> before, after |-> after]

\* load_cached<T>(ptr): .ca, cache at all levels
load_cached ==
  \E T \in Types : \E ptr \in PointersOf(T) :
    /\ Len(plog) < MaxAccesses
    /\ plog' = Append(plog, Call("load_cached", T, ptr, <<>>,
                                 LoadTemplate(gmem, "ca", T, ptr), gmem, gmem))
    /\ UNCHANGED <<pargs, gmem>>
    /\ UNCHANGED otherThanPtx

\* load_l2<T>(ptr): .cg, cache at L2
load_l2 ==
  \E T \in Types : \E ptr \in PointersOf(T) :
    /\ Len(plog) < MaxAccesses
    /\ plog' = Append(plog, Call("load_l2", T, ptr, <<>>,
                                 LoadTemplate(gmem, "cg", T, ptr), gmem, gmem))
    /\ UNCHANGED <<pargs, gmem>>
    /\ UNCHANGED otherThanPtx

\* load_streaming<T>(ptr): .cs, evict first
load_streaming ==
  \E T \in Types : \E ptr \in PointersOf(T) :
    /\ Len(plog) < MaxAccesses
    /\ plog' = Append(plog, Call("load_streaming", T, ptr, <<>>,
                                 LoadTemplate(gmem, "cs", T, ptr), gmem, gmem))
    /\ UNCHANGED <<pargs, gmem>>
    /\ UNCHANGED otherThanPtx

\* store_streaming<T>(ptr, value): .cs, evict first
store_streaming ==
  \E T \in Types : \E ptr \in PointersOf(T) :
    LET v == [k \in 1..SizeOf(T) |-> 200 + k]
    IN  /\ Len(plog) < MaxAccesses
        /\ gmem' = StoreTemplate(gmem, "cs", T, ptr, v)
        /\ plog' = Append(plog, Call("store_streaming", T, ptr, v, <<>>,
                                     gmem, gmem'))
        /\ UNCHANGED pargs
        /\ UNCHANGED otherThanPtx

-----------------------------------------------------------------------------
(* Specifications *)

\* one trilu task on the GPU, the threads of its launch interleaved one memory
\* access at a time (blocks of BlockDim threads)
InitTrilu ==
  /\ TriluInit(Shapes(MaxVolume), Vals) /\ SyrkIdle /\ ContractIdle /\ EnvIdle
  /\ HelpersIdle("none")

NextTrilu ==
  \/ TriluImplBody(BlockDim)
  \/ \E t \in DOMAIN tpc : KernelReturn(t)
  \/ \E t \in DOMAIN tpc : KernelLoad(t)
  \/ \E t \in DOMAIN tpc : KernelStore(t)
  \/ \E t \in DOMAIN tpc : KernelZero(t)

SpecTrilu == InitTrilu /\ [][NextTrilu]_vars

\* the host side of one trilu task, with the launch geometry of the source
InitLaunch ==
  /\ TriluInit({ <<v, 1>> : v \in 0..MaxLaunchVolume }, {0})
  /\ SyrkIdle /\ ContractIdle /\ EnvIdle /\ HelpersIdle("none")

NextLaunch == TriluImplBody(THREADS_PER_BLOCK)

SpecLaunch == InitLaunch /\ [][NextLaunch]_vars

InitSyrk ==
  SyrkInit /\ TriluIdle /\ ContractIdle /\ EnvIdle /\ HelpersIdle("none")

NextSyrk == Syrk_FLOAT \/ Syrk_DOUBLE \/ Syrk_COMPLEX64 \/ Syrk_COMPLEX128

SpecSyrk == InitSyrk /\ [][NextSyrk]_vars

\* one contraction task on the OpenMP processor
InitContract ==
  ContractInit /\ TriluIdle /\ SyrkIdle /\ EnvIdle /\ HelpersIdle("none")

NextContract ==
  Contract_FLOAT \/ Contract_DOUBLE \/ Contract_COMPLEX64 \/ Contract_COMPLEX128

SpecContract == InitContract /\ [][NextContract]_vars

\* the contraction tasks of one process, on its OpenMP processors
InitEnv ==
  EnvInit /\ TriluIdle /\ SyrkIdle /\ ContractIdle /\ HelpersIdle("none")

NextEnv ==
  \/ \E t \in OmpProcs : OmpVariantFormat(t)
  \/ \E t \in OmpProcs : SetenvLocked(t)
  \/ \E t \in OmpProcs : SetenvLookup(t)
  \/ \E t \in OmpProcs : SetenvPut(t)
  \/ \E t \in OmpProcs : ContractTemplate(t)

SpecEnv == InitEnv /\ [][NextEnv]_vars

\* one use of a CHECK_* macro: the library call has returned chk.status, and
\* __FILE__ and __LINE__ are those of the use
InitCheck ==
  /\ \E lib \in DOMAIN StatusesOf :
       \E status \in StatusesOf[lib], file \in {"trilu.cu", "cudalibs.cu"},
          line \in {66, 120, 1023} :
         chk = [lib |-> lib, status |-> status, file |-> file, line |-> line]
  /\ chkpc = "call"
  /\ stderr = <<>>
  /\ exitstatus = Undef
  /\ HelpersIdle("check")
  /\ TriluIdle /\ SyrkIdle /\ ContractIdle /\ EnvIdle

NextCheck ==
  check_cuda \/ check_cublas \/ check_cufft \/ check_cusolver \/ check_cutensor

SpecCheck == InitCheck /\ [][NextCheck]_vars

\* a block of THREADS_PER_BLOCK threads, all of them entering the reduction
\* named by rargs
ReduceStart ==
  /\ values = rargs.input
  /\ trampoline = [w \in Warps |-> <<>>]
  /\ wpc = [w \in Warps |-> "reduce"]
  /\ result = rargs.result
  /\ rlog = <<>>
  /\ HelpersIdle("reduce")
  /\ TriluIdle /\ SyrkIdle /\ ContractIdle /\ EnvIdle

\* one block of THREADS_PER_BLOCK threads in reduce_bool, its warps interleaved
InitReduceBool ==
  /\ \E marked \in MarkedSets, before \in BOOLEAN :
       rargs = [fn |-> "reduce_bool", REDUCTION |-> "none",
                input |-> InputOf(marked, 0, 1), result |-> before]
  /\ ReduceStart

NextReduceBool ==
  \/ \E w \in Warps : reduce_bool_warp(w)
  \/ Barrier
  \/ reduce_bool_output

SpecReduceBool == InitReduceBool /\ [][NextReduceBool]_vars

\* one block of THREADS_PER_BLOCK threads in reduce_output, either overload
InitReduceOutput ==
  /\ \E fn \in {"reduce_output", "reduce_output_complex"} :
       \E REDUCTION \in {"SumReduction", "ProdReduction"}, marked \in MarkedSets :
         rargs = [fn |-> fn, REDUCTION |-> REDUCTION,
                  input |-> InputOf(marked, ValuesOf(fn, REDUCTION).special,
                                    ValuesOf(fn, REDUCTION).normal),
                  result |-> ValuesOf(fn, REDUCTION).result]
  /\ ReduceStart

NextReduceOutput ==
  \/ \E w \in Warps : reduce_output_warp(w)
  \/ \E w \in Warps : reduce_output_complex_warp(w)
  \/ Barrier
  \/ reduce_output_output
  \/ reduce_output_complex_output

SpecReduceOutput == InitReduceOutput /\ [][NextReduceOutput]_vars

\* one device thread calling the load and store intrinsics on global memory,
\* the byte addresses 0 .. MemBytes - 1
InitPtx ==
  /\ pargs \in { [a \in 0..(MemBytes - 1) |-> a + 1],
                 [a \in 0..(MemBytes - 1) |-> 99 - a] }
  /\ gmem = pargs
  /\ plog = <<>>
  /\ HelpersIdle("ptx")
  /\ TriluIdle /\ SyrkIdle /\ ContractIdle /\ EnvIdle

NextPtx == load_cached \/ load_l2 \/ load_streaming \/ store_streaming

SpecPtx == InitPtx /\ [][NextPtx]_vars

-----------------------------------------------------------------------------
(* Claims about trilu.cu *)

\* C1: with LOWER = true, once the kernel has run, for every flat index idx in
\* [0, volume) and p = unflatten(idx, lo): out[p] = in[p] if
\* p[DIM-2] + k >= p[DIM-1], and out[p] = 0 otherwise, for every offset k.
C1_LowerTriangle ==
  (KernelDone /\ targs.LOWER) =>
    \A idx \in 0..(targs.volume - 1) :
      LET p == Unflatten(idx, targs.lo, targs.pitches)
      IN  out[p] = IF p[targs.DIM - 1] + targs.k >= p[targs.DIM] THEN in[p] ELSE 0

\* a lower-triangle run that copied a non-zero element and zeroed another one
C1_Witness ==
  /\ KernelDone /\ targs.LOWER /\ targs.k = -1
  /\ \E p, q \in DOMAIN out :
       /\ in[p] = 1 /\ out[p] = 1
       /\ in[q] = 1 /\ out[q] = 0

\* C2: with LOWER = false, once the kernel has run, for every flat index idx in
\* [0, volume) and p = unflatten(idx, lo): out[p] = in[p] if
\* p[DIM-2] + k <= p[DIM-1], and out[p] = 0 otherwise, for every offset k.
C2_UpperTriangle ==
  (KernelDone /\ ~targs.LOWER) =>
    \A idx \in 0..(targs.volume - 1) :
      LET p == Unflatten(idx, targs.lo, targs.pitches)
      IN  out[p] = IF p[targs.DIM - 1] + targs.k <= p[targs.DIM] THEN in[p] ELSE 0

\* an upper-triangle run that copied a non-zero element and zeroed another one
C2_Witness ==
  /\ KernelDone /\ ~targs.LOWER /\ targs.k = 1
  /\ \E p, q \in DOMAIN out :
       /\ in[p] = 1 /\ out[p] = 1
       /\ in[q] = 1 /\ out[q] = 0

\* C7: one call of the GPU TriluImplBody issues exactly one launch, of
\* trilu_kernel, with 128 threads per block and the least number of blocks
\* such that blocks * 128 >= volume (zero blocks for volume = 0), and does
\* nothing else.
C7_SingleLaunch ==
  /\ hostpc = "call" => launches = <<>>
  /\ hostpc = "returned" =>
       /\ Len(launches) = 1
       /\ launches[1].kernel = "trilu_kernel"
       /\ launches[1].threads = 128
       /\ launches[1].blocks * 128 >= targs.volume
       /\ launches[1].blocks > 0 => (launches[1].blocks - 1) * 128 < targs.volume
       /\ targs.volume = 0 => launches[1].blocks = 0
       /\ Cardinality(DOMAIN tpc) = launches[1].blocks * 128
       /\ in = [p \in DOMAIN in |-> 0]
       /\ \A p \in DOMAIN out : out[p] = Undef

\* a volume just above one block: two blocks are launched
C7_Witness ==
  /\ hostpc = "returned" /\ targs.volume = 129
  /\ Len(launches) = 1 /\ launches[1].blocks = 2

\* C8: under every interleaving of the launched threads each point with flat
\* index in [0, volume) is written exactly once, by one thread; a thread with
\* idx >= volume reads and writes nothing; no thread reads a location that
\* another thread writes; the input array is never written; and the final
\* contents of out do not depend on the interleaving.
C8_ThreadsIndependent ==
  hostpc = "returned" =>
    /\ \A w \in writes : w[2] = "out"
    /\ \A r \in reads : r[2] = "in"
    /\ \A t \in DOMAIN tpc :
         t[1] * launches[1].threads + t[2] >= targs.volume =>
           /\ tpc[t] \in {"ready", "done"}
           /\ \A a \in reads \cup writes : a[1] # t
    /\ \A r \in reads : \A w \in writes :
         (r[2] = w[2] /\ r[3] = w[3]) => r[1] = w[1]
    /\ \A p \in DOMAIN out :
         /\ nwrites[p] <= 1
         /\ Cardinality({ w \in writes : w[3] = p }) = nwrites[p]
    /\ KernelDone =>
         /\ \A idx \in 0..(targs.volume - 1) :
              nwrites[Unflatten(idx, targs.lo, targs.pitches)] = 1
         /\ out = [p \in DOMAIN in |->
                     IF (IF targs.LOWER
                           THEN p[targs.DIM - 1] + targs.k >= p[targs.DIM]
                           ELSE p[targs.DIM - 1] + targs.k <= p[targs.DIM])
                       THEN in[p] ELSE 0]

\* a finished launch of two blocks in which one thread was out of range and
\* the others both copied and zeroed
C8_Witness ==
  /\ KernelDone /\ targs.volume = 3 /\ launches[1].blocks = 2
  /\ \E t \in DOMAIN tpc : t[1] * launches[1].threads + t[2] >= targs.volume
  /\ reads # {}
  /\ \E p \in DOMAIN out : out[p] = 0 /\ in[p] = 1
  /\ \A p \in DOMAIN out : nwrites[p] = 1

-----------------------------------------------------------------------------
(* Claims about syrk.cc *)

\* element (i, j), 0-based, of a column-major matrix with leading dimension ld
At(M, i, j, ld) == M[i + j * ld + 1]

RECURSIVE SumTo(_, _)
SumTo(f, K) == IF K = 0 THEN 0 ELSE f[K] + SumTo(f, K - 1)

\* C3: for float and double the CPU syrk body computes lhs := lhs - rhs * rhs^T
\* on the lower triangle (row >= column) of the m-by-m column-major lhs, rhs
\* being m-by-n column-major, and leaves the strictly upper triangle unchanged.
C3_RealSyrkLower ==
  (spc = "returned" /\ sargs.code \in RealCodes) =>
    /\ Len(syrk_lhs) = sargs.m * sargs.m
    /\ \A i, j \in 0..(sargs.m - 1) :
         At(syrk_lhs, i, j, sargs.m) =
           IF i >= j
             THEN << At(sargs.lhs, i, j, sargs.m)[1]
                       - SumTo([l \in 1..sargs.n |->
                                  At(syrk_rhs, i, l - 1, sargs.m)[1]
                                    * At(syrk_rhs, j, l - 1, sargs.m)[1]], sargs.n),
                     0 >>
             ELSE At(sargs.lhs, i, j, sargs.m)

\* a real update of a 2-by-2 lhs that changed a lower entry off the diagonal
C3_Witness ==
  /\ spc = "returned" /\ sargs.code = "DOUBLE_LT"
  /\ sargs.m = 2 /\ sargs.n = 2
  /\ At(syrk_lhs, 1, 0, 2) # At(sargs.lhs, 1, 0, 2)
  /\ At(syrk_lhs, 0, 1, 2) = At(sargs.lhs, 0, 1, 2)

\* rhs * rhs^T (no conjugation), element (i, j)
PlainProduct(i, j) ==
  CSum([l \in 1..sargs.n |->
          CMul(At(syrk_rhs, i, l - 1, sargs.m), At(syrk_rhs, j, l - 1, sargs.m))])

\* rhs * rhs^H (conjugate transpose), element (i, j)
HermitianProduct(i, j) ==
  CSum([l \in 1..sargs.n |->
          CMul(At(syrk_rhs, i, l - 1, sargs.m),
               Conj(At(syrk_rhs, j, l - 1, sargs.m)))])

\* C4 as stated: for COMPLEX64 and COMPLEX128, as for the real types, the
\* value subtracted from the lower triangle of lhs is rhs * rhs^T without
\* conjugation.
C4_ComplexPlainTranspose ==
  (spc = "returned" /\ sargs.code \in ComplexCodes) =>
    \A i, j \in 0..(sargs.m - 1) :
      i >= j => At(syrk_lhs, i, j, sargs.m)
                  = CSub(At(sargs.lhs, i, j, sargs.m), PlainProduct(i, j))

\* C4 amended: for COMPLEX64 and COMPLEX128 the value subtracted from the
\* lower triangle of lhs is rhs * rhs^H (conjugate transpose); when n > 0 the
\* imaginary part of the diagonal of lhs is set to zero; the strictly upper
\* triangle is unchanged.
C4_ComplexHermitian ==
  (spc = "returned" /\ sargs.code \in ComplexCodes) =>
    /\ Len(syrk_lhs) = sargs.m * sargs.m
    /\ \A i, j \in 0..(sargs.m - 1) :
         LET old == At(sargs.lhs, i, j, sargs.m)
             new == At(syrk_lhs, i, j, sargs.m)
         IN  /\ i > j => new = CSub(old, HermitianProduct(i, j))
             /\ i < j => new = old
             /\ i = j =>
                  /\ new[1] = old[1] - HermitianProduct(i, i)[1]
                  /\ sargs.n > 0 => new[2] = 0

\* a complex update whose result differs from the unconjugated one
C4_Witness ==
  /\ spc = "returned" /\ sargs.code = "COMPLEX64_LT"
  /\ sargs.m = 2 /\ sargs.n = 2
  /\ At(syrk_lhs, 1, 0, 2) = CSub(At(sargs.lhs, 1, 0, 2), HermitianProduct(1, 0))
  /\ HermitianProduct(1, 0) # PlainProduct(1, 0)

-----------------------------------------------------------------------------
(* Claims about contract_omp.cc: ContractImplBody *)

\* the init function that matches an element type
InitFnOf(code) ==
  CASE code = "FLOAT_LT"      -> "tblis_init_tensor_s"
    [] code = "DOUBLE_LT"     -> "tblis_init_tensor_d"
    [] code = "COMPLEX64_LT"  -> "tblis_init_tensor_c"
    [] code = "COMPLEX128_LT" -> "tblis_init_tensor_z"

\* the init call that describes the argument group named t
InitCallOf(t) ==
  [fn |-> InitFnOf(cargs.code),
   ndim |-> (CASE t = "lhs" -> cargs.lhs_ndim
               [] t = "rhs1" -> cargs.rhs1_ndim
               [] t = "rhs2" -> cargs.rhs2_ndim),
   len |-> t \o "_shape", data |-> t \o "_data", stride |-> t \o "_strides"]

\* whether descriptor T describes the argument group named t
Describes(T, t) ==
  /\ T.data = t \o "_data" /\ T.len = t \o "_shape" /\ T.stride = t \o "_strides"
  /\ T.ndim = InitCallOf(t).ndim

\* C5: one call of the OMP ContractImplBody makes exactly one
\* tblis_tensor_mult call, as its last call; before it the three descriptors
\* are initialised with the init function of the element type, each from its
\* own ndim, shape, data and strides; the mult call passes rhs1 with
\* rhs1_modes, rhs2 with rhs2_modes and lhs with lhs_modes as output, with
\* null communicator and configuration.
C5_OneMultCall ==
  /\ cpc = "call" => calls = <<>>
  /\ cpc = "returned" =>
       /\ Len(calls) = 4
       /\ Cardinality({ i \in 1..Len(calls) : calls[i].fn = "tblis_tensor_mult" }) = 1
       /\ \A t \in {"lhs", "rhs1", "rhs2"} :
            Cardinality({ i \in 1..3 : calls[i] = InitCallOf(t) }) = 1
       /\ LET c == calls[4]
          IN  /\ c.fn = "tblis_tensor_mult"
              /\ c.comm = "nullptr" /\ c.cfg = "nullptr"
              /\ Describes(c.A, "rhs1") /\ c.idx_A = "rhs1_modes"
              /\ Describes(c.B, "rhs2") /\ c.idx_B = "rhs2_modes"
              /\ Describes(c.C, "lhs") /\ c.idx_C = "lhs_modes"

\* a complex<float> contraction that has returned after its tblis calls
C5_Witness ==
  /\ cpc = "returned" /\ cargs.code = "COMPLEX64_LT"
  /\ Len(calls) = 4 /\ calls[4].fn = "tblis_tensor_mult"
  /\ calls[1].fn = "tblis_init_tensor_c"

MetadataBuffers ==
  { t \o f : t \in {"lhs", "rhs1", "rhs2"}, f \in {"_shape", "_strides", "_modes"} }

\* C6: across a ContractImplBody call the shape, stride and mode arrays of
\* lhs, rhs1 and rhs2 and the rhs1 and rhs2 data buffers hold the same values
\* after the call as before; lhs data is the only buffer that can change.
C6_OnlyLhsDataChanges ==
  cpc = "returned" =>
    /\ DOMAIN mem = DOMAIN cargs.mem
    /\ \A b \in MetadataBuffers : mem[b] = cargs.mem[b]
    /\ mem.rhs1_data = cargs.mem.rhs1_data
    /\ mem.rhs2_data = cargs.mem.rhs2_data
    /\ Len(mem.lhs_data) = Len(cargs.mem.lhs_data)

\* a float contraction that changed lhs data
C6_Witness ==
  /\ cpc = "returned" /\ cargs.code = "FLOAT_LT"
  /\ mem.lhs_data # cargs.mem.lhs_data
  /\ Len(mem.rhs1_data) > 1

\* the labels of the contraction, their index assignments, and the elements
\* they select in the buffers as they were at the call
LhsLabels == { cargs.mem.lhs_modes[d] : d \in 1..cargs.lhs_ndim }
Rhs1Labels == { cargs.mem.rhs1_modes[d] : d \in 1..cargs.rhs1_ndim }
Rhs2Labels == { cargs.mem.rhs2_modes[d] : d \in 1..cargs.rhs2_ndim }
SummedLabels == (Rhs1Labels \cap Rhs2Labels) \ LhsLabels

IndexSets(L) == { a \in [L -> 0..(MaxExt - 1)] : \A l \in L : a[l] < cargs.ext[l] }

Position(a, t) ==
  LET modes == cargs.mem[t \o "_modes"]
      strides == cargs.mem[t \o "_strides"]
  IN  1 + SumOver(DOMAIN modes, [d \in DOMAIN modes |-> a[modes[d]] * strides[d]])

\* sum over the summed labels of rhs1 * rhs2, at the lhs index c
Contraction(c) ==
  CSumOver(IndexSets(SummedLabels),
           [s \in IndexSets(SummedLabels) |->
              CMul(cargs.mem.rhs1_data[Position(c @@ s, "rhs1")],
                   cargs.mem.rhs2_data[Position(c @@ s, "rhs2")])])

\* C9 as stated: after the call lhs holds the contraction of rhs1 and rhs2,
\* determined by rhs1, rhs2 and the mode labels alone, whatever lhs held
\* before the call.
C9_LhsIsContraction ==
  cpc = "returned" =>
    \A c \in IndexSets(LhsLabels) :
      mem.lhs_data[Position(c, "lhs")] = Contraction(c)

\* C9 amended: after the call lhs holds the values it held before the call
\* plus the contraction of rhs1 and rhs2 (unit scaling, no conjugation).
C9_LhsAccumulatesContraction ==
  cpc = "returned" =>
    \A c \in IndexSets(LhsLabels) :
      mem.lhs_data[Position(c, "lhs")] =
        CAdd(cargs.mem.lhs_data[Position(c, "lhs")], Contraction(c))

\* a double matrix product into an lhs that was not zero: the old values
\* show in the result
C9_Witness ==
  /\ cpc = "returned" /\ cargs.code = "DOUBLE_LT"
  /\ cargs.lhs_ndim = 2 /\ cargs.rhs1_ndim = 2 /\ cargs.rhs2_ndim = 2
  /\ Len(mem.lhs_data) = 4
  /\ \E c \in IndexSets(LhsLabels) :
       /\ Contraction(c) # <<0, 0>>
       /\ cargs.mem.lhs_data[Position(c, "lhs")] # <<0, 0>>
       /\ mem.lhs_data[Position(c, "lhs")] # Contraction(c)
       /\ mem.lhs_data[Position(c, "lhs")] # cargs.mem.lhs_data[Position(c, "lhs")]

-----------------------------------------------------------------------------
(* Claims about contract_omp.cc: ContractTask::omp_variant *)

\* C10: omp_variant never overwrites an existing setting of TBLIS_NUM_THREADS:
\* a value present at the start is left unchanged; otherwise the variable is
\* set, before contract_template runs, to the decimal thread count of one
\* single call, and after any sequence of calls, also interleaved on several
\* threads, it never changes again.
C10_NeverOverwritten ==
  /\ eargs.env # Unset => (env = eargs.env /\ envlog = <<>>)
  /\ envlog # <<>> =>
       /\ envlog[1].value \in { <<"4">>, <<"1", "2">> }
       /\ env = envlog[1].value
  /\ \A t \in OmpProcs : opc[t] = "contract" => env # Unset

-----------------------------------------------------------------------------
(* Claims about the CUDA helpers of syrk.cc *)

\* the one diagnostic line of a failed check names the error, the file and the
\* line of the CHECK_* use
NamesTheFailure(diagnostic) ==
  /\ \E i \in DOMAIN diagnostic.error :
       diagnostic.error[i] \in
         { <<"%d", chk.status>>, <<"cudaGetErrorName", chk.status>> }
  /\ diagnostic.file = chk.file
  /\ diagnostic.line = chk.line

\* C11 as stated: a success status returns with no output; every other status
\* writes one diagnostic line and ends the process with an exit status equal
\* to the error code.
C11_ExitStatusIsErrorCode ==
  /\ chkpc = "returned" =>
       chk.status = StatusSuccess /\ stderr = <<>> /\ exitstatus = Undef
  /\ chkpc = "exited" =>
       /\ chk.status # StatusSuccess
       /\ Len(stderr) = 1 /\ NamesTheFailure(stderr[1])
       /\ exitstatus = chk.status
       /\ exitstatus # 0

\* C11: when the status is the library's success code the check_* helper
\* returns with nothing written to stderr and the process running; for every
\* other status it writes one diagnostic line naming the error, the file and
\* the line, and ends the process, never returning; the exit status is the
\* low eight bits of the error code (the error code itself only below 256),
\* and it is non-zero for the error codes of the libraries.
C11_ExitStatusIsLowByte ==
  /\ chkpc = "returned" =>
       chk.status = StatusSuccess /\ stderr = <<>> /\ exitstatus = Undef
  /\ chkpc = "exited" =>
       /\ chk.status # StatusSuccess
       /\ Len(stderr) = 1 /\ NamesTheFailure(stderr[1])
       /\ exitstatus = chk.status % 256
       /\ chk.status < 256 => exitstatus = chk.status
       /\ exitstatus # 0
  /\ chkpc = "call" => stderr = <<>> /\ exitstatus = Undef

\* a failed CUDA call whose error code does not fit the exit status:
\* cudaErrorIllegalAddress (700) ends the process with status 188
C11_Witness ==
  /\ chkpc = "exited" /\ chk.lib = "cuda" /\ chk.status = 700
  /\ exitstatus = 188 /\ Len(stderr) = 1

\* every thread of the block has left the reduction
ReduceDone == \A w \in Warps : wpc[w] = "done"

\* the writes of result performed so far
ResultWrites == SelectSeq(rlog, LAMBDA e : e.op = "result")

\* every load of a trampoline slot by thread 0 is of a slot 1..3, is made
\* when lane 0 of all the warps 1..3 has stored to its slot, and returns what
\* lane 0 of the warp of the slot stored
LoadsAfterBarrier ==
  \A j \in DOMAIN rlog :
    rlog[j].op = "load" =>
      /\ rlog[j].slot \in 1..LastSlot
      /\ rlog[j].stored = 1..LastSlot
      /\ rlog[j].val = <<values[rlog[j].slot * WarpSize]>>

\* C12: when all THREADS_PER_BLOCK threads of a block call reduce_bool, thread
\* 0 writes false to result if and only if at least one thread passed
\* value == 0; when every thread passed a non-zero value result is not written
\* at all (it is never set to true); thread 0 reads trampoline[1..3] only
\* after the barrier that follows their writes by lane 0 of warps 1..3.
C12_BlockWideAnd ==
  /\ LoadsAfterBarrier
  /\ \A j \in DOMAIN ResultWrites : ResultWrites[j].val = <<FALSE>>
  /\ ~ReduceDone => ResultWrites = <<>> /\ result = rargs.result
  /\ ReduceDone =>
       IF \E t \in Threads : rargs.input[t] = 0
         THEN Len(ResultWrites) = 1 /\ result = FALSE
         ELSE ResultWrites = <<>> /\ result = rargs.result

\* the only zero of the block was passed by thread 70 (warp 2, lane 6), result
\* was true before the call, and thread 0 has set it to false
C12_Witness ==
  /\ ReduceDone
  /\ rargs.fn = "reduce_bool" /\ rargs.result = TRUE
  /\ \A t \in Threads : rargs.input[t] = 0 <=> t = 70
  /\ result = FALSE /\ Len(ResultWrites) = 1

\* REDUCTION::fold of the overload that is running
FoldOf(lhs, rhs) == Fold(rargs.fn, rargs.REDUCTION, lhs, rhs)

\* the fold of the inputs of the threads lo..hi, each taken exactly once
RECURSIVE FoldRange(_, _)
FoldRange(lo, hi) ==
  IF lo = hi THEN rargs.input[lo]
  ELSE LET mid == (lo + hi) \div 2
       IN  FoldOf(FoldRange(lo, mid), FoldRange(mid + 1, hi))

\* C13: when all THREADS_PER_BLOCK threads of a block call reduce_output with
\* an associative and commutative REDUCTION, exactly one result <<= value is
\* performed per block, by thread 0, and the value applied is the fold of the
\* 128 inputs, each included exactly once; after the butterfly every lane
\* holds the fold of its warp; the same for the generic and the complex<T>
\* overload.
C13_OneFoldPerBlock ==
  /\ LoadsAfterBarrier
  /\ \A w \in Warps :
       wpc[w] \in {"sync", "output"} \/ (wpc[w] = "done" /\ w > 0) =>
         LET fold == FoldRange(w * WarpSize, ((w + 1) * WarpSize) - 1)
         IN  \A lane \in 0..(WarpSize - 1) : values[(w * WarpSize) + lane] = fold
  /\ ~ReduceDone => ResultWrites = <<>> /\ result = rargs.result
  /\ ReduceDone =>
       /\ Len(ResultWrites) = 1
       /\ ResultWrites[1].val = <<FoldRange(0, THREADS_PER_BLOCK - 1)>>
       /\ result = FoldOf(rargs.result, FoldRange(0, THREADS_PER_BLOCK - 1))

\* the complex<T> overload with a product: threads 31 and 96 passed i, the
\* others 1, and the one contribution of the block is i * i = -1
C13_Witness ==
  /\ ReduceDone
  /\ rargs.fn = "reduce_output_complex" /\ rargs.REDUCTION = "ProdReduction"
  /\ \A t \in Threads : rargs.input[t] = <<0, 1>> <=> t \in {31, 96}
  /\ Len(ResultWrites) = 1 /\ ResultWrites[1].val = << <<-1, 0>> >>
  /\ result = <<-2, 0>>

LoadTemplates == {"load_cached", "load_l2", "load_streaming"}

\* C14: for every specialised type, load_cached(ptr), load_l2(ptr) and
\* load_streaming(ptr) return the value stored at *ptr, as the generic
\* fallback does, and leave memory unchanged; store_streaming(ptr, v) changes
\* only *ptr, to v; so a store_streaming(ptr, v) followed by any of the three
\* loads from ptr returns v.
C14_HintsOnly ==
  \A j \in DOMAIN plog :
    LET c == plog[j]
    IN  /\ c.fn \in LoadTemplates =>
             /\ c.ret = Deref(c.before, c.T, c.ptr)
             /\ c.after = c.before
        /\ c.fn = "store_streaming" =>
             /\ Deref(c.after, c.T, c.ptr) = c.arg
             /\ \A a \in DOMAIN c.before :
                  a \notin c.ptr..(c.ptr + SizeOf(c.T) - 1) =>
                    c.after[a] = c.before[a]
        /\ j > 1 =>
             LET s == plog[j - 1]
             IN  /\ c.before = s.after
                 /\ ( /\ s.fn = "store_streaming" /\ c.fn \in LoadTemplates
                      /\ c.T = s.T /\ c.ptr = s.ptr ) => c.ret = s.arg

\* a store_streaming<int64_t> of a value the memory did not hold, followed by
\* a load_l2<int64_t> from the same pointer that returned the value
C14_Witness ==
  /\ Len(plog) = 2
  /\ plog[1].fn = "store_streaming" /\ plog[1].T = "int64_t"
  /\ plog[1].arg # Deref(plog[1].before, "int64_t", plog[1].ptr)
  /\ plog[2].fn = "load_l2" /\ plog[2].T = "int64_t"
  /\ plog[2].ptr = plog[1].ptr
  /\ plog[2].ret = plog[1].arg

=============================================================================
